---- MODULE Spec2Model ----
(***************************************************************************)
(* Storefront application app.py: a relational store (products, orders,    *)
(* order_items) in the file store.db, a cart kept in the signed session    *)
(* cookie, and the HTTP handlers over them.                                *)
(*                                                                         *)
(* Spec     : one client session issuing requests one after another; each *)
(*            request runs the before_request hook and then its handler.   *)
(* SpecConc : several requests racing through the on-demand initialisation *)
(*            of the store, one SQL statement (or file check) per step.    *)
(***************************************************************************)
EXTENDS Integers, Sequences, FiniteSets, TLC

VARIABLES store, session, now, request, response, adds, pc, count, outcome

vars == <<store, session, now, request, response, adds, pc, count, outcome>>

-----------------------------------------------------------------------------
(* Bounds of the model *)

MaxQuantity == 2
MaxOrders == 2
MaxClock == 1
MaxProductId == 4

ProductIds == 0..MaxProductId
NumRequests == 2

(* Strings are sequences of one-character strings. *)
FormIds == { <<>>, <<"1">>, <<"0", "2">>, <<"4">>, <<"x">> }

CartKeys == FormIds \ { <<>> }

(* request.form: the field product_id is present or not *)
Forms == { [f \in F |-> s] : F \in SUBSET {"product_id"}, s \in FormIds }

-----------------------------------------------------------------------------
(* Python values *)

None == [none |-> TRUE]

EmptyDict == [k \in {} |-> 0]

Digits == {"0", "1", "2", "3", "4", "5", "6", "7", "8", "9"}

DigitVal(c) ==
    CASE c = "0" -> 0 [] c = "1" -> 1 [] c = "2" -> 2 [] c = "3" -> 3
      [] c = "4" -> 4 [] c = "5" -> 5 [] c = "6" -> 6 [] c = "7" -> 7
      [] c = "8" -> 8 [] c = "9" -> 9

CodePoint(c) ==
    CASE c = " " -> 32 [] c = "+" -> 43 [] c = "-" -> 45 [] c = "_" -> 95
      [] c = "x" -> 120 [] c \in Digits -> 48 + DigitVal(c)

RECURSIVE StrLess(_, _)
StrLess(a, b) ==
    IF a = <<>> THEN b # <<>>
    ELSE IF b = <<>> THEN FALSE
    ELSE IF Head(a) # Head(b) THEN CodePoint(Head(a)) < CodePoint(Head(b))
    ELSE StrLess(Tail(a), Tail(b))

RECURSIVE Strip(_)
Strip(s) ==
    IF s = <<>> THEN s
    ELSE IF Head(s) = " " THEN Strip(Tail(s))
    ELSE IF s[Len(s)] = " " THEN Strip(SubSeq(s, 1, Len(s) - 1))
    ELSE s

(* digits, single underscores allowed between two digits *)
RECURSIVE DigitRun(_, _)
DigitRun(s, acc) ==
    IF s = <<>> THEN [ok |-> TRUE, value |-> acc]
    ELSE IF Head(s) \in Digits THEN DigitRun(Tail(s), 10 * acc + DigitVal(Head(s)))
    ELSE IF Head(s) = "_" /\ Len(s) > 1 /\ s[2] \in Digits THEN DigitRun(Tail(s), acc)
    ELSE [ok |-> FALSE, value |-> 0]

(* int(str): ok = FALSE stands for ValueError *)
PyInt(s) ==
    LET t == Strip(s)
        signed == t # <<>> /\ Head(t) \in {"+", "-"}
        body == IF signed THEN Tail(t) ELSE t
        run == IF body # <<>> /\ Head(body) \in Digits
               THEN DigitRun(body, 0)
               ELSE [ok |-> FALSE, value |-> 0]
    IN  IF run.ok /\ signed /\ Head(t) = "-"
        THEN [ok |-> TRUE, value |-> 0 - run.value]
        ELSE run

RECURSIVE SortedKeys(_)
SortedKeys(S) ==
    IF S = {} THEN <<>>
    ELSE LET least == CHOOSE k \in S : \A o \in S \ {k} : StrLess(k, o)
         IN  <<least>> \o SortedKeys(S \ {least})

(* dict.items() of a dict read back from the session cookie *)
DictItems(d) ==
    LET keys == SortedKeys(DOMAIN d)
    IN  [i \in 1..Len(keys) |-> <<keys[i], d[keys[i]]>>]

RECURSIVE SumValues(_, _)
SumValues(d, S) ==
    IF S = {} THEN 0
    ELSE LET k == CHOOSE k \in S : TRUE
         IN  d[k] + SumValues(d, S \ {k})

-----------------------------------------------------------------------------
(* Storage layer *)

Product(id, name, description, price, image_url) ==
    [id |-> id, name |-> name, description |-> description,
     price |-> price, image_url |-> image_url]

SeedRows ==
    << [name |-> "headset", description |-> "clear sound, 20h battery",
        price |-> 1450000, image_url |-> "photo-1518441988334"],
       [name |-> "laptop", description |-> "daily work and travel",
        price |-> 24800000, image_url |-> "photo-1517336714731"],
       [name |-> "smartwatch", description |-> "activity tracking",
        price |-> 3950000, image_url |-> "photo-1511707171634"] >>

NoStore ==
    [exists |-> FALSE, tables |-> {}, products |-> <<>>, orders |-> <<>>,
     order_items |-> <<>>]

(* sqlite3.connect creates the file when it is missing *)
get_connection(db) == [db EXCEPT !.exists = TRUE]

(* CREATE TABLE IF NOT EXISTS t, committed at once *)
CreateTable(db, t) == [db EXCEPT !.tables = @ \cup {t}]

(* SELECT COUNT( * ) FROM products *)
CountProducts(db) == Len(db.products)

(* AUTOINCREMENT: no row is ever deleted, so the next id is the row count + 1 *)
RECURSIVE InsertProducts(_, _)
InsertProducts(rows, new) ==
    IF new = <<>> THEN rows
    ELSE InsertProducts(
            Append(rows, Product(Len(rows) + 1, Head(new).name, Head(new).description,
                                 Head(new).price, Head(new).image_url)),
            Tail(new))

(* seeding without the count == 0 test *)
SeedAlways(db, n) == [db EXCEPT !.products = InsertProducts(@, SeedRows)]

(* if count == 0: executemany(INSERT INTO products ...), committed on exit *)
SeedProducts(db, n) ==
    IF n = 0 THEN [db EXCEPT !.products = InsertProducts(@, SeedRows)] ELSE db

init_db(db) ==
    LET c0 == get_connection(db)
        c1 == CreateTable(c0, "products")
        c2 == CreateTable(c1, "orders")
        c3 == CreateTable(c2, "order_items")
    IN  SeedProducts(c3, CountProducts(c3))

ensure_database(db) == IF ~db.exists THEN init_db(db) ELSE db

fetch_products(db) == db.products

(* fetchone() of a query that lost its WHERE clause *)
fetch_product_first(db, product_id) ==
    IF db.products = <<>> \/ product_id > Len(db.products) THEN None
    ELSE Head(db.products)

(* SELECT * FROM products WHERE id = ? ... fetchone() *)
fetch_product(db, product_id) ==
    LET rows == SelectSeq(db.products, LAMBDA row : row.id = product_id)
    IN  IF rows = <<>> THEN None ELSE Head(rows)

(* INSERT INTO orders (created_at) VALUES (datetime('now')) *)
InsertOrder(db, t) ==
    [db EXCEPT !.orders = Append(@, [id |-> Len(@) + 1, created_at |-> t])]

-----------------------------------------------------------------------------
(* Cart service *)

(* session.get("cart"); the session only ever holds a dict under "cart" *)
get_cart(s) == IF "cart" \in DOMAIN s THEN s["cart"] ELSE EmptyDict

save_cart(s, cart) == [k \in DOMAIN s \cup {"cart"} |-> IF k = "cart" THEN cart ELSE s[k]]

SessionKeepCart(s) == s

(* session.pop("cart", None) *)
SessionPopCart(s) == [k \in DOMAIN s \ {"cart"} |-> s[k]]

DictSet(d, k, v) == [x \in DOMAIN d \cup {k} |-> IF x = k THEN v ELSE d[x]]

DictGet(d, k, default) == IF k \in DOMAIN d THEN d[k] ELSE default

DictPop(d, k) == [x \in DOMAIN d \ {k} |-> d[x]]

-----------------------------------------------------------------------------
(* Presentation layer: requests and responses *)

NoArgs == [k \in {} |-> 0]

Req(method, path, view_args, form) ==
    [method |-> method, path |-> path, view_args |-> view_args, form |-> form]

RedirectAsPage(location) ==
    [status |-> 200, location |-> location, template |-> "redirect.html", context |-> None]

redirect(location) ==
    [status |-> 302, location |-> location, template |-> "", context |-> None]

render_template(template, context, status) ==
    [status |-> status, location |-> "", template |-> template, context |-> context]

(* an exception that leaves the view function: ValueError, OperationalError *)
InternalServerError(exception) ==
    [status |-> 500, location |-> "", template |-> "", context |-> [exception |-> exception]]

NoProductIdField(form) == "product_id" \notin DOMAIN form

(* if not product_id, for product_id = request.form.get("product_id") *)
NoProductId(form) == "product_id" \notin DOMAIN form \/ form["product_id"] = <<>>

index(db, s) ==
    LET products == fetch_products(db)
        cart == get_cart(s)
        cart_size == SumValues(cart, DOMAIN cart)
    IN  render_template("index.html", [products |-> products, cart_size |-> cart_size], 200)

product_detail(db, product_id) ==
    LET product == fetch_product(db, product_id)
    IN  IF product = None
        THEN render_template("not_found.html", None, 404)
        ELSE render_template("product.html", [product |-> product], 200)

ItemTotalUnit(product, quantity) == product.price

(* item_total = product.price * quantity *)
ItemTotal(product, quantity) == product.price * quantity

RECURSIVE ViewCartLoop(_, _, _, _)
ViewCartLoop(db, items, products, total) ==
    IF items = <<>> THEN [raised |-> FALSE, products |-> products, total |-> total]
    ELSE LET product_id == Head(items)[1]
             quantity == Head(items)[2]
             n == PyInt(product_id)
             product == fetch_product(db, n.value)
             item_total == ItemTotal(product, quantity)
         IN  IF ~n.ok THEN [raised |-> TRUE, products |-> products, total |-> total]
             ELSE IF product = None THEN ViewCartLoop(db, Tail(items), products, total)
             ELSE ViewCartLoop(db, Tail(items),
                     Append(products, [product |-> product, quantity |-> quantity,
                                       item_total |-> item_total]),
                     total + item_total)

view_cart(db, s) ==
    LET cart == get_cart(s)
        r == ViewCartLoop(db, DictItems(cart), <<>>, 0)
    IN  IF r.raised THEN InternalServerError("ValueError")
        ELSE render_template("cart.html", [items |-> r.products, total |-> r.total], 200)

(* cart[product_id] = cart.get(product_id, 0) + 1 *)
CartAfterAdd(cart, product_id) == DictSet(cart, product_id, DictGet(cart, product_id, 0) + 1)

CartAfterRemoveDecrement(cart, product_id) ==
    IF product_id \in DOMAIN cart /\ cart[product_id] > 1
    THEN DictSet(cart, product_id, cart[product_id] - 1)
    ELSE DictPop(cart, product_id)

CartNeverEmpty(cart) == FALSE

(* if not cart *)
CartIsEmpty(cart) == cart = EmptyDict

(* if product_id in cart: cart.pop(product_id) *)
CartAfterRemove(cart, product_id) ==
    IF product_id \in DOMAIN cart THEN DictPop(cart, product_id) ELSE cart

-----------------------------------------------------------------------------
(* One client session, one request at a time *)

Pending == [state |-> "pending", table |-> "", rows |-> 0]

Init ==
    /\ store = NoStore
    /\ session = [k \in {} |-> EmptyDict]
    /\ now = 0
    /\ request = Req("", "", NoArgs, NoArgs)
    /\ response = redirect("")
    /\ adds = [p \in CartKeys |-> 0]
    /\ pc = [r \in 1..NumRequests |-> "before_request"]
    /\ count = [r \in 1..NumRequests |-> 0]
    /\ outcome = [r \in 1..NumRequests |-> Pending]

ConcUnchanged == UNCHANGED <<pc, count, outcome>>

Index ==
    LET db == ensure_database(store)
    IN  /\ request' = Req("GET", "/", NoArgs, NoArgs)
        /\ store' = db
        /\ response' = index(db, session)
        /\ UNCHANGED <<session, now, adds>>
        /\ ConcUnchanged

ProductDetail(product_id) ==
    LET db == ensure_database(store)
    IN  /\ request' = Req("GET", "/products/<int:product_id>",
                          [k \in {"product_id"} |-> product_id], NoArgs)
        /\ store' = db
        /\ response' = product_detail(db, product_id)
        /\ UNCHANGED <<session, now, adds>>
        /\ ConcUnchanged

ViewCart ==
    LET db == ensure_database(store)
    IN  /\ request' = Req("GET", "/cart", NoArgs, NoArgs)
        /\ store' = db
        /\ response' = view_cart(db, session)
        /\ UNCHANGED <<session, now, adds>>
        /\ ConcUnchanged

AddToCart(form) ==
    LET db == ensure_database(store)
        product_id == form["product_id"]
        cart == get_cart(session)
    IN  /\ request' = Req("POST", "/cart/add", NoArgs, form)
        /\ store' = db
        /\ IF NoProductId(form)
           THEN /\ response' = redirect("/")
                /\ UNCHANGED <<session, adds>>
           ELSE /\ DictGet(cart, product_id, 0) < MaxQuantity
                /\ session' = save_cart(session, CartAfterAdd(cart, product_id))
                /\ response' = redirect("/cart")
                /\ adds' = [adds EXCEPT ![product_id] = @ + 1]
        /\ UNCHANGED now
        /\ ConcUnchanged

RemoveFromCart(form) ==
    LET db == ensure_database(store)
        product_id == form["product_id"]
        cart == get_cart(session)
    IN  /\ request' = Req("POST", "/cart/remove", NoArgs, form)
        /\ store' = db
        /\ IF NoProductId(form)
           THEN /\ response' = redirect("/cart")
                /\ UNCHANGED <<session, adds>>
           ELSE /\ session' = save_cart(session, CartAfterRemove(cart, product_id))
                /\ response' = redirect("/cart")
                /\ adds' = [adds EXCEPT ![product_id] = 0]
        /\ UNCHANGED now
        /\ ConcUnchanged

Checkout ==
    LET db == ensure_database(store)
        cart == get_cart(session)
    IN  /\ request' = Req("POST", "/checkout", NoArgs, NoArgs)
        /\ IF CartIsEmpty(cart)
           THEN /\ store' = db
                /\ response' = redirect("/")
                /\ UNCHANGED <<session, now, adds>>
           ELSE /\ Len(db.orders) < MaxOrders
                /\ \E t \in now..MaxClock :
                      /\ now' = t
                      /\ store' = InsertOrder(db, t)
                /\ session' = SessionPopCart(session)
                /\ response' = render_template("checkout.html", None, 200)
                /\ adds' = [p \in CartKeys |-> 0]
        /\ ConcUnchanged

(* init_db() called on the store directly *)
InitDb ==
    /\ request' = Req("", "init_db", NoArgs, NoArgs)
    /\ store' = init_db(store)
    /\ response' = redirect("")
    /\ UNCHANGED <<session, now, adds>>
    /\ ConcUnchanged

Next ==
    \/ Index
    \/ \E product_id \in ProductIds : ProductDetail(product_id)
    \/ ViewCart
    \/ \E form \in Forms : AddToCart(form)
    \/ \E form \in Forms : RemoveFromCart(form)
    \/ Checkout
    \/ InitDb

Spec == Init /\ [][Next]_vars

-----------------------------------------------------------------------------
(* Requests of several clients racing through ensure_database and init_db. *)
(* Each step is one file check or one SQL statement: the CREATE TABLE      *)
(* statements and the SELECT run outside a transaction, the INSERT commits *)
(* when the with block is left.                                            *)

Goto(r, label) == pc' = [pc EXCEPT ![r] = label]

SeqUnchanged == UNCHANGED <<session, now, request, response, adds>>

(* if not DB_PATH.exists(): init_db() *)
BeforeRequest(r) ==
    /\ pc[r] = "before_request"
    /\ Goto(r, IF ~store.exists THEN "get_connection" ELSE "handler")
    /\ UNCHANGED <<store, count, outcome>>
    /\ SeqUnchanged

Connect(r) ==
    /\ pc[r] = "get_connection"
    /\ store' = get_connection(store)
    /\ Goto(r, "create_products")
    /\ UNCHANGED <<count, outcome>>
    /\ SeqUnchanged

CreateProducts(r) ==
    /\ pc[r] = "create_products"
    /\ store' = CreateTable(store, "products")
    /\ Goto(r, "create_orders")
    /\ UNCHANGED <<count, outcome>>
    /\ SeqUnchanged

CreateOrders(r) ==
    /\ pc[r] = "create_orders"
    /\ store' = CreateTable(store, "orders")
    /\ Goto(r, "create_order_items")
    /\ UNCHANGED <<count, outcome>>
    /\ SeqUnchanged

CreateOrderItems(r) ==
    /\ pc[r] = "create_order_items"
    /\ store' = CreateTable(store, "order_items")
    /\ Goto(r, "count")
    /\ UNCHANGED <<count, outcome>>
    /\ SeqUnchanged

SelectCount(r) ==
    /\ pc[r] = "count"
    /\ count' = [count EXCEPT ![r] = CountProducts(store)]
    /\ Goto(r, "seed")
    /\ UNCHANGED <<store, outcome>>
    /\ SeqUnchanged

Seed(r) ==
    /\ pc[r] = "seed"
    /\ store' = SeedProducts(store, count[r])
    /\ Goto(r, "handler")
    /\ UNCHANGED <<count, outcome>>
    /\ SeqUnchanged

(* index: fetch_products, SELECT * FROM products *)
HandlerIndex(r) ==
    /\ pc[r] = "handler"
    /\ outcome' = [outcome EXCEPT ![r] =
          IF "products" \in store.tables
          THEN [state |-> "ok", table |-> "products", rows |-> Len(fetch_products(store))]
          ELSE [state |-> "OperationalError", table |-> "products", rows |-> 0]]
    /\ Goto(r, "done")
    /\ UNCHANGED <<store, count>>
    /\ SeqUnchanged

(* checkout of a client with a non-empty cart: INSERT INTO orders *)
HandlerCheckout(r) ==
    /\ pc[r] = "handler"
    /\ IF "orders" \in store.tables
       THEN /\ store' = InsertOrder(store, now)
            /\ outcome' = [outcome EXCEPT ![r] =
                  [state |-> "ok", table |-> "orders", rows |-> Len(store.orders) + 1]]
       ELSE /\ outcome' = [outcome EXCEPT ![r] =
                  [state |-> "OperationalError", table |-> "orders", rows |-> 0]]
            /\ UNCHANGED store
    /\ Goto(r, "done")
    /\ UNCHANGED count
    /\ SeqUnchanged

NextConc ==
    \E r \in 1..NumRequests :
        \/ BeforeRequest(r)
        \/ Connect(r)
        \/ CreateProducts(r)
        \/ CreateOrders(r)
        \/ CreateOrderItems(r)
        \/ SelectCount(r)
        \/ Seed(r)
        \/ HandlerIndex(r)
        \/ HandlerCheckout(r)

SpecConc == Init /\ [][NextConc]_vars

-----------------------------------------------------------------------------
(* Properties *)

Cart == get_cart(session)

ProductIdOf(req) == req.form["product_id"]

HasRow(db, id) == \E i \in 1..Len(db.products) : db.products[i].id = id

RowOf(db, id) == db.products[CHOOSE i \in 1..Len(db.products) : db.products[i].id = id]

\* C1: the cart entry of a product id is absent when no add of it happened
\* since its last remove, the last successful checkout or the session start,
\* and otherwise equals the number of adds of it since then.
C1_CartCountsAdds ==
    /\ DOMAIN Cart \subseteq CartKeys
    /\ \A p \in CartKeys :
          IF adds[p] = 0 THEN p \notin DOMAIN Cart
          ELSE p \in DOMAIN Cart /\ Cart[p] = adds[p]

C1_Witness ==
    /\ request.path = "/cart/remove"
    /\ ~NoProductId(request.form)
    /\ ProductIdOf(request) = <<"0", "2">>
    /\ DOMAIN Cart = { <<"1">>, <<"x">> }
    /\ Cart[<<"1">>] = 2

\* C2: a checkout with a non-empty cart appends exactly one order row and
\* removes the cart from the session; the cart view right after it shows no
\* items and total 0, and a checkout right after it inserts no order row.
C2_CheckoutPlacesOneOrder ==
    [][ /\ (request'.path = "/checkout" /\ Cart # EmptyDict) =>
              /\ Len(store'.orders) = Len(store.orders) + 1
              /\ SubSeq(store'.orders, 1, Len(store.orders)) = store.orders
              /\ "cart" \notin DOMAIN session'
        /\ (request.path = "/checkout" /\ response.status = 200 /\ request'.path = "/cart") =>
              /\ response'.status = 200
              /\ response'.template = "cart.html"
              /\ response'.context.items = <<>>
              /\ response'.context.total = 0
        /\ (request.path = "/checkout" /\ response.status = 200 /\ request'.path = "/checkout") =>
              /\ store'.orders = store.orders
              /\ response'.status = 302
      ]_vars

C2_Witness ==
    /\ request.path = "/checkout"
    /\ response.status = 200
    /\ Len(store.orders) = 2
    /\ "cart" \notin DOMAIN session

\* C3 (as stated): a checkout with an empty or missing cart inserts no order
\* row, leaves the session cart and all three tables unchanged, and redirects
\* to the catalog page.
C3_DeclinedCheckoutChangesNothing ==
    [][ (request'.path = "/checkout" /\ Cart = EmptyDict) =>
              /\ store'.orders = store.orders
              /\ session' = session
              /\ store'.tables = store.tables
              /\ store'.products = store.products
              /\ store'.order_items = store.order_items
              /\ response' = [status |-> 302, location |-> "/", template |-> "",
                              context |-> None]
      ]_vars

\* C3 (amended): a checkout with an empty or missing cart inserts no order
\* row, leaves the session unchanged, leaves the whole store unchanged when
\* the store file already exists (otherwise the before_request hook creates
\* the tables and seeds the products first), and redirects to the catalog.
C3_DeclinedCheckout ==
    [][ (request'.path = "/checkout" /\ Cart = EmptyDict) =>
              /\ store'.orders = store.orders
              /\ store'.order_items = store.order_items
              /\ session' = session
              /\ store.exists => store' = store
              /\ ~store.exists =>
                    /\ store'.tables = {"products", "orders", "order_items"}
                    /\ Len(store'.products) = Len(SeedRows)
              /\ response' = [status |-> 302, location |-> "/", template |-> "",
                              context |-> None]
      ]_vars

C3_Witness ==
    /\ request.path = "/checkout"
    /\ response.status = 302
    /\ "cart" \in DOMAIN session
    /\ Cart = EmptyDict
    /\ Len(store.orders) = 1

Resolves(k) == PyInt(k).ok /\ HasRow(store, PyInt(k).value)

Resolving == {k \in DOMAIN Cart : Resolves(k)}

RECURSIVE SumOver(_)
SumOver(S) ==
    IF S = {} THEN 0
    ELSE LET k == CHOOSE k \in S : TRUE
         IN  RowOf(store, PyInt(k).value).price * Cart[k] + SumOver(S \ {k})

C5_CartViewNeverFails ==
    /\ (request.path = "/cart/add" /\ ~NoProductId(request.form)) =>
          ProductIdOf(request) \in DOMAIN Cart
    /\ request.path = "/cart" =>
          /\ response.status = 200
          /\ response.template = "cart.html"

\* C6 (as stated): every POST that changes the session cart or the store
\* answers with a redirect, never with a rendered page.
C6_MutationsRedirect ==
    [][ (request'.method = "POST" /\ (session' # session \/ store' # store)) =>
              /\ response'.status = 302
              /\ response'.template = ""
      ]_vars

\* C6 (amended): every POST to /cart/add or /cart/remove that changes the
\* session cart or the store answers with a redirect, never with a rendered
\* page; a POST to /checkout that inserts an order answers with the rendered
\* confirmation page (HTTP 200).
C6_CartMutationsRedirect ==
    [][ /\ (/\ request'.path \in {"/cart/add", "/cart/remove"}
            /\ (session' # session \/ store' # store)) =>
              /\ response'.status = 302
              /\ response'.template = ""
        /\ (request'.path = "/checkout" /\ store'.orders # store.orders) =>
              /\ response'.status = 200
              /\ response'.template = "checkout.html"
              /\ response'.location = ""
      ]_vars

C6_Witness ==
    /\ request.path = "/cart/remove"
    /\ response.status = 302
    /\ "cart" \in DOMAIN session
    /\ Cart = EmptyDict
    /\ Len(store.orders) = 1

\* C7 (as stated): every POST /cart/add and every POST /cart/remove is
\* answered with a redirect to /cart, whatever the form holds.
C7_AlwaysRedirectsToCart ==
    request.path \in {"/cart/add", "/cart/remove"} =>
        /\ response.status = 302
        /\ response.location = "/cart"

\* C7 (amended): a POST /cart/add with a non-empty product_id is answered
\* with a redirect to /cart, one whose product_id is missing or empty with a
\* redirect to the catalog (/); every POST /cart/remove is answered with a
\* redirect to /cart.
C7_AddRedirects ==
    /\ request.path \in {"/cart/add", "/cart/remove"} => response.status = 302
    /\ request.path = "/cart/remove" => response.location = "/cart"
    /\ request.path = "/cart/add" =>
          response.location =
             IF "product_id" \in DOMAIN request.form /\ ProductIdOf(request) # <<>>
             THEN "/cart" ELSE "/"

C7_Witness ==
    /\ request.path = "/cart/add"
    /\ "product_id" \in DOMAIN request.form
    /\ ProductIdOf(request) = <<>>
    /\ response.location = "/"
    /\ Cart # EmptyDict

\* C8: once init_db has run, however often, the products table holds exactly
\* the three seed products with ids 1, 2, 3; a run of init_db that finds the
\* products table non-empty changes nothing in the store.
C8_SeedingIdempotent ==
    /\ [](store.exists =>
            /\ Len(store.products) = 3
            /\ \A i \in 1..Len(store.products) :
                  /\ store.products[i].id = i
                  /\ store.products[i].name = SeedRows[i].name
                  /\ store.products[i].price = SeedRows[i].price)
    /\ [][ (request'.path = "init_db" /\ store.products # <<>>) => store' = store ]_vars

C8_Witness ==
    /\ request.path = "init_db"
    /\ store.orders # <<>>
    /\ Len(store.products) = 3

\* C9: fetch_product returns None exactly when no product row has the id and
\* otherwise the row with that id; the detail page answers 404 with the
\* not-found page exactly in that case and renders the product otherwise.
C9_NotFoundExactly ==
    /\ store.exists =>
          \A id \in ProductIds :
              /\ fetch_product(store, id) = None <=> ~HasRow(store, id)
              /\ HasRow(store, id) => fetch_product(store, id) = RowOf(store, id)
    /\ request.path = "/products/<int:product_id>" =>
          LET id == request.view_args["product_id"]
          IN  IF HasRow(store, id)
              THEN /\ response.status = 200
                   /\ response.template = "product.html"
                   /\ response.context.product = RowOf(store, id)
              ELSE /\ response.status = 404
                   /\ response.template = "not_found.html"

C9_Witness ==
    /\ request.path = "/products/<int:product_id>"
    /\ request.view_args["product_id"] = 4
    /\ response.status = 404

-----------------------------------------------------------------------------
\* C10: under every interleaving of requests that start while the store file
\* is missing, every handler query finds its table, an index query sees the
\* three seed rows, and the products table ends with exactly three rows.
C10_InitRaceFree ==
    /\ \A r \in 1..NumRequests :
          /\ outcome[r].state # "OperationalError"
          /\ (outcome[r].state = "ok" /\ outcome[r].table = "products")
                => outcome[r].rows = Len(SeedRows)
    /\ (\A r \in 1..NumRequests : pc[r] = "done") => Len(store.products) = Len(SeedRows)

====
